---------------------------- MODULE Spec2Model ----------------------------
(***************************************************************************)
(* Smaz: a static-dictionary codec for short strings.                      *)
(*                                                                         *)
(* The model follows src/smaz.go (package smaz: init, trieNode, Compress,  *)
(* flushVerbatim, Decompress) and src/smaz.php (Smaz::compress,            *)
(* Smaz::flushVerbatim).  Bytes are integers 0..255, byte slices are       *)
(* sequences, and the cursors keep the 0-based values of the code.         *)
(*                                                                         *)
(* One behaviour is one run of a driver: either it compresses an input     *)
(* with the Go encoder, then with the PHP encoder, and decompresses the    *)
(* Go output ("roundtrip"), or it hands an arbitrary byte sequence to      *)
(* Decompress ("decode").                                                  *)
(***************************************************************************)
EXTENDS Integers, Sequences, FiniteSets, TLC

VARIABLES
    decodeMap,  \* smaz.go decodeMap / smaz.php $decodeMap: code -> string
    codeTrie,   \* smaz.go codeTrie: the prefix trie built by init()
    encodeMap,  \* smaz.php $encodeMap: string -> code, built on first use
    mode,       \* "roundtrip" or "decode"
    pc,         \* position of the driver inside Compress/compress/Decompress
    input,      \* Compress: the argument (a slice, possibly nil)
    i,          \* Compress: cursor
    output,     \* Compress: output buffer
    verbatim,   \* Compress: verbatim accumulator
    matchLen,   \* Compress: length returned by findLongestPrefix
    code,       \* Compress: code returned by findLongestPrefix
    cRet,       \* Compress: returned (slice, error)
    pI,         \* Smaz::compress: cursor $i
    pOutput,    \* Smaz::compress: $output
    pVerbatim,  \* Smaz::compress: $verbatim
    pRet,       \* Smaz::compress: returned string
    dInput,     \* Decompress: the argument (a slice, possibly nil)
    dI,         \* Decompress: cursor
    dOutput,    \* Decompress: output buffer
    dIters,     \* Decompress: completed loop iterations
    dRead,      \* Decompress: highest input index read so far (-1: none)
    dRet        \* Decompress: returned (slice, error)

codecVars == <<decodeMap, codeTrie, encodeMap>>
goVars    == <<input, i, output, verbatim, matchLen, code, cRet>>
phpVars   == <<pI, pOutput, pVerbatim, pRet>>
decVars   == <<dInput, dI, dOutput, dIters, dRead, dRet>>
vars      == <<decodeMap, codeTrie, encodeMap, mode, pc, input, i, output,
               verbatim, matchLen, code, cRet, pI, pOutput, pVerbatim, pRet,
               dInput, dI, dOutput, dIters, dRead, dRet>>

----------------------------------------------------------------------------
(* The codebook, smaz.go:6-28 (the same table as smaz.php:18-40).          *)
codeStrings ==
  << <<32>>, <<116, 104, 101>>, <<101>>, <<116>>, <<97>>, <<111, 102>>, 
     <<111>>, <<97, 110, 100>>, <<105>>, <<110>>, <<115>>, <<101, 32>>, 
     <<114>>, <<32, 116, 104>>, <<32, 116>>, <<105, 110>>, <<104, 101>>, 
     <<116, 104>>, <<104>>, <<104, 101, 32>>, <<116, 111>>, <<13, 10>>, 
     <<108>>, <<115, 32>>, <<100>>, <<32, 97>>, <<97, 110>>, <<101, 114>>, 
     <<99>>, <<32, 111>>, <<100, 32>>, <<111, 110>>, <<32, 111, 102>>, 
     <<114, 101>>, <<111, 102, 32>>, <<116, 32>>, <<44, 32>>, <<105, 115>>, 
     <<117>>, <<97, 116>>, <<32, 32, 32>>, <<110, 32>>, <<111, 114>>, 
     <<119, 104, 105, 99, 104>>, <<102>>, <<109>>, <<97, 115>>, 
     <<105, 116>>, <<116, 104, 97, 116>>, <<10>>, <<119, 97, 115>>, 
     <<101, 110>>, <<32, 32>>, <<32, 119>>, <<101, 115>>, <<32, 97, 110>>, 
     <<32, 105>>, <<13>>, <<102, 32>>, <<103>>, <<112>>, <<110, 100>>, 
     <<32, 115>>, <<110, 100, 32>>, <<101, 100, 32>>, <<119>>, <<101, 100>>, 
     <<104, 116, 116, 112, 58, 47, 47>>, <<102, 111, 114>>, <<116, 101>>, 
     <<105, 110, 103>>, <<121, 32>>, <<84, 104, 101>>, <<32, 99>>, 
     <<116, 105>>, <<114, 32>>, <<104, 105, 115>>, <<115, 116>>, 
     <<32, 105, 110>>, <<97, 114>>, <<110, 116>>, <<44>>, <<32, 116, 111>>, 
     <<121>>, <<110, 103>>, <<32, 104>>, <<119, 105, 116, 104>>, 
     <<108, 101>>, <<97, 108>>, <<116, 111, 32>>, <<98>>, <<111, 117>>, 
     <<98, 101>>, <<119, 101, 114, 101>>, <<32, 98>>, <<115, 101>>, 
     <<111, 32>>, <<101, 110, 116>>, <<104, 97>>, <<110, 103, 32>>, 
     <<116, 104, 101, 105, 114>>, <<34>>, <<104, 105>>, 
     <<102, 114, 111, 109>>, <<32, 102>>, <<105, 110, 32>>, <<100, 101>>, 
     <<105, 111, 110>>, <<109, 101>>, <<118>>, <<46>>, <<118, 101>>, 
     <<97, 108, 108>>, <<114, 101, 32>>, <<114, 105>>, <<114, 111>>, 
     <<105, 115, 32>>, <<99, 111>>, <<102, 32, 116>>, <<97, 114, 101>>, 
     <<101, 97>>, <<46, 32>>, <<104, 101, 114>>, <<32, 109>>, 
     <<101, 114, 32>>, <<32, 112>>, <<101, 115, 32>>, <<98, 121>>, 
     <<116, 104, 101, 121>>, <<100, 105>>, <<114, 97>>, <<105, 99>>, 
     <<110, 111, 116>>, <<115, 44, 32>>, <<100, 32, 116>>, <<97, 116, 32>>, 
     <<99, 101>>, <<108, 97>>, <<104, 32>>, <<110, 101>>, <<97, 115, 32>>, 
     <<116, 105, 111>>, <<111, 110, 32>>, <<110, 32, 116>>, <<105, 111>>, 
     <<119, 101>>, <<32, 97, 32>>, <<111, 109>>, <<44, 32, 97>>, 
     <<115, 32, 111>>, <<117, 114>>, <<108, 105>>, <<108, 108>>, 
     <<99, 104>>, <<104, 97, 100>>, <<116, 104, 105, 115>>, 
     <<101, 32, 116>>, <<103, 32>>, <<101, 13, 10>>, <<32, 119, 104>>, 
     <<101, 114, 101>>, <<32, 99, 111>>, <<101, 32, 111>>, <<97, 32>>, 
     <<117, 115>>, <<32, 100>>, <<115, 115>>, <<10, 13, 10>>, 
     <<13, 10, 13>>, <<61, 34>>, <<32, 98, 101>>, <<32, 101>>, 
     <<115, 32, 97>>, <<109, 97>>, <<111, 110, 101>>, <<116, 32, 116>>, 
     <<111, 114, 32>>, <<98, 117, 116>>, <<101, 108>>, <<115, 111>>, 
     <<108, 32>>, <<101, 32, 115>>, <<115, 44>>, <<110, 111>>, 
     <<116, 101, 114>>, <<32, 119, 97>>, <<105, 118>>, <<104, 111>>, 
     <<101, 32, 97>>, <<32, 114>>, <<104, 97, 116>>, <<115, 32, 116>>, 
     <<110, 115>>, <<99, 104, 32>>, <<119, 104>>, <<116, 114>>, 
     <<117, 116>>, <<47>>, <<104, 97, 118, 101>>, <<108, 121, 32>>, 
     <<116, 97>>, <<32, 104, 97>>, <<32, 111, 110>>, <<116, 104, 97>>, 
     <<45>>, <<32, 108>>, <<97, 116, 105>>, <<101, 110, 32>>, <<112, 101>>, 
     <<32, 114, 101>>, <<116, 104, 101, 114, 101>>, <<97, 115, 115>>, 
     <<115, 105>>, <<32, 102, 111>>, <<119, 97>>, <<101, 99>>, 
     <<111, 117, 114>>, <<119, 104, 111>>, <<105, 116, 115>>, <<122>>, 
     <<102, 111>>, <<114, 115>>, <<62>>, <<111, 116>>, <<117, 110>>, <<60>>, 
     <<105, 109>>, <<116, 104, 32>>, <<110, 99>>, <<97, 116, 101>>, 
     <<62, 60>>, <<118, 101, 114>>, <<97, 100>>, <<32, 119, 101>>, 
     <<108, 121>>, <<101, 101>>, <<32, 110>>, <<105, 100>>, <<32, 99, 108>>, 
     <<97, 99>>, <<105, 108>>, <<60, 47>>, <<114, 116>>, <<32, 119, 105>>, 
     <<100, 105, 118>>, <<101, 44, 32>>, <<32, 105, 116>>, 
     <<119, 104, 105>>, <<32, 109, 97>>, <<103, 101>>, <<120>>, 
     <<101, 32, 99>>, <<109, 101, 110>>, <<46, 99, 111, 109>> >>

verbatimByte   == 254  \* code for a single verbatim byte
verbatimString == 255  \* code for a verbatim string followed by its length

----------------------------------------------------------------------------
(* Go values.  A []byte is a record that keeps nil apart from empty; an    *)
(* error is its message, "none" standing for a nil error.                  *)
NilSlice  == [isNil |-> TRUE, bytes |-> <<>>]
Slice(s)  == [isNil |-> FALSE, bytes |-> s]
NoError   == "none"
Pending   == [out |-> NilSlice, err |-> "pending"]
Byte(n)   == n % 256

Min(a, b) == IF a < b THEN a ELSE b
Max(a, b) == IF a > b THEN a ELSE b

(* s[k] and s[a:b] with the 0-based indices of the code. *)
At(s, k)        == s[k + 1]
Sub(s, a, b)    == SubSeq(s, a + 1, b)

----------------------------------------------------------------------------
(* The trie.  A node is named by the path of bytes leading to it from the  *)
(* root <<>>; branches[c] of node p is non-nil iff Append(p, c) is a node. *)
emptyNode == [val |-> 0, terminal |-> FALSE]

(* trieNode.put, smaz.go:67-76, applied by init() to every entry in turn:  *)
(* put creates the nodes on the path of its key and marks the last one     *)
(* terminal with its value, a later put of the same key overwriting it.    *)
putPaths(key) == {SubSeq(key, 1, n) : n \in 1..Len(key)}

putAll(strings) ==
    LET paths == UNION {putPaths(strings[k]) : k \in 1..Len(strings)}
        node(p) ==
            LET ks == {k \in 1..Len(strings) : strings[k] = p}
            IN  IF ks = {} THEN emptyNode
                ELSE [val |-> Byte((CHOOSE k \in ks : \A l \in ks : l <= k) - 1),
                      terminal |-> TRUE]
    IN  [p \in {<<>>} \cup paths |-> node(p)]

RECURSIVE walkTrie(_, _, _, _, _, _)
walkTrie(trie, in, k, node, lastMatch, lastCode) ==
    IF k > Len(in) THEN [matchLen |-> lastMatch, code |-> lastCode]
    ELSE LET next == Append(node, in[k])
         IN  IF next \notin DOMAIN trie
             THEN [matchLen |-> lastMatch, code |-> lastCode]
             ELSE IF trie[next].terminal
                  THEN walkTrie(trie, in, k + 1, next, k, trie[next].val)
                  ELSE walkTrie(trie, in, k + 1, next, lastMatch, lastCode)

(* A walk that returns at the first terminal node instead of the last. *)
RECURSIVE walkTrieFirst(_, _, _, _)
walkTrieFirst(trie, in, k, node) ==
    IF k > Len(in) THEN [matchLen |-> 0, code |-> 0]
    ELSE LET next == Append(node, in[k])
         IN  IF next \notin DOMAIN trie
             THEN [matchLen |-> 0, code |-> 0]
             ELSE IF trie[next].terminal
                  THEN [matchLen |-> k, code |-> trie[next].val]
                  ELSE walkTrieFirst(trie, in, k + 1, next)

findLongestPrefix_first(trie, in) == walkTrieFirst(trie, in, 1, <<>>)

findLongestPrefix(trie, in) == walkTrie(trie, in, 1, <<>>, 0, 0)

----------------------------------------------------------------------------
(* flushVerbatim, smaz.go:237-258.                                         *)
RECURSIVE flushLoop(_, _, _)
flushLoop(out, verb, pos) ==
    IF pos >= Len(verb) THEN out
    ELSE LET chunkSize == Min(255, Len(verb) - pos)
             head == IF chunkSize = 1 THEN <<verbatimByte>>
                     ELSE <<verbatimString, Byte(chunkSize)>>
         IN  flushLoop(out \o head \o Sub(verb, pos, pos + chunkSize),
                       verb, pos + chunkSize)

(* A flush that never uses the one-byte escape. *)
RECURSIVE flushLoopNoByte(_, _, _)
flushLoopNoByte(out, verb, pos) ==
    IF pos >= Len(verb) THEN out
    ELSE LET chunkSize == Min(255, Len(verb) - pos)
         IN  flushLoopNoByte(out \o <<verbatimString, Byte(chunkSize)>>
                                 \o Sub(verb, pos, pos + chunkSize),
                             verb, pos + chunkSize)

flushVerbatim_noByteFrame(out, verb) == flushLoopNoByte(out, verb, 0)

flushVerbatim(out, verb) == flushLoop(out, verb, 0)

----------------------------------------------------------------------------
(* Compress, smaz.go:108-155.                                              *)
(* Compress without the nil check: nil is compressed as the empty slice. *)
CompressEntry_noNilCheck ==
    /\ pc = "Compress"
    /\ output' = <<>>
    /\ verbatim' = <<>>
    /\ i' = 0
    /\ pc' = "c_loop"
    /\ UNCHANGED <<cRet, matchLen, code, mode, input>>
    /\ UNCHANGED <<codecVars, phpVars, decVars>>

CompressEntry ==
    /\ pc = "Compress"
    /\ IF input.isNil
       THEN /\ cRet' = [out |-> NilSlice, err |-> "input cannot be nil"]
            /\ pc' = "done"
            /\ UNCHANGED <<i, output, verbatim>>
       ELSE /\ output' = <<>>
            /\ verbatim' = <<>>
            /\ i' = 0
            /\ pc' = "c_loop"
            /\ UNCHANGED cRet
    /\ UNCHANGED <<matchLen, code, mode, input>>
    /\ UNCHANGED <<codecVars, phpVars, decVars>>

CompressFind ==
    /\ pc = "c_loop"
    /\ i < Len(input.bytes)
    /\ LET maxLen == Min(7, Len(input.bytes) - i)
           m == findLongestPrefix(codeTrie, Sub(input.bytes, i, i + maxLen))
       IN  /\ matchLen' = m.matchLen
           /\ code' = m.code
           /\ pc' = IF m.matchLen > 0 THEN "c_match" ELSE "c_nomatch"
    /\ UNCHANGED <<i, output, verbatim, cRet, mode, input>>
    /\ UNCHANGED <<codecVars, phpVars, decVars>>

CompressMatch ==
    /\ pc = "c_match"
    /\ LET flushed == IF Len(verbatim) > 0
                      THEN flushVerbatim(output, verbatim) ELSE output
       IN  output' = Append(flushed, code)
    /\ verbatim' = <<>>
    /\ i' = i + matchLen
    /\ pc' = "c_loop"
    /\ UNCHANGED <<matchLen, code, cRet, mode, input>>
    /\ UNCHANGED <<codecVars, phpVars, decVars>>

CompressLiteral ==
    /\ pc = "c_nomatch"
    /\ verbatim' = Append(verbatim, At(input.bytes, i))
    /\ i' = i + 1
    /\ pc' = "c_full"
    /\ UNCHANGED <<output, matchLen, code, cRet, mode, input>>
    /\ UNCHANGED <<codecVars, phpVars, decVars>>

(* The full-buffer test one byte early. *)
CompressFull_early ==
    /\ pc = "c_full"
    /\ IF Len(verbatim) = 254
       THEN /\ output' = flushVerbatim(output, verbatim)
            /\ verbatim' = <<>>
       ELSE UNCHANGED <<output, verbatim>>
    /\ pc' = "c_loop"
    /\ UNCHANGED <<i, matchLen, code, cRet, mode, input>>
    /\ UNCHANGED <<codecVars, phpVars, decVars>>

(* The full-buffer test one byte late. *)
CompressFull_late ==
    /\ pc = "c_full"
    /\ IF Len(verbatim) > 255
       THEN /\ output' = flushVerbatim(output, verbatim)
            /\ verbatim' = <<>>
       ELSE UNCHANGED <<output, verbatim>>
    /\ pc' = "c_loop"
    /\ UNCHANGED <<i, matchLen, code, cRet, mode, input>>
    /\ UNCHANGED <<codecVars, phpVars, decVars>>

CompressFull ==
    /\ pc = "c_full"
    /\ IF Len(verbatim) = 255
       THEN /\ output' = flushVerbatim(output, verbatim)
            /\ verbatim' = <<>>
       ELSE UNCHANGED <<output, verbatim>>
    /\ pc' = "c_loop"
    /\ UNCHANGED <<i, matchLen, code, cRet, mode, input>>
    /\ UNCHANGED <<codecVars, phpVars, decVars>>

CompressReturn ==
    /\ pc = "c_loop"
    /\ i >= Len(input.bytes)
    /\ LET out == IF Len(verbatim) > 0
                  THEN flushVerbatim(output, verbatim) ELSE output
       IN  /\ output' = out
           /\ cRet' = [out |-> Slice(out), err |-> NoError]
    /\ pc' = "compress"
    /\ UNCHANGED <<i, verbatim, matchLen, code, mode, input>>
    /\ UNCHANGED <<codecVars, phpVars, decVars>>

----------------------------------------------------------------------------
(* Smaz::compress, smaz.php:62-110.  $encodeMap is null (here: the empty   *)
(* map) until getEncodeMap() flips $decodeMap on the first call.           *)
arrayFlip(strings) ==
    [s \in {strings[k] : k \in 1..Len(strings)} |->
        CHOOSE c \in 0..(Len(strings) - 1) :
            /\ strings[c + 1] = s
            /\ \A d \in 0..(Len(strings) - 1) : strings[d + 1] = s => d <= c]

getEncodeMap(map, strings) ==
    IF map = <<>> THEN arrayFlip(strings) ELSE map

(* The inner for loop, smaz.php:75-89: the first j, counting down from     *)
(* maxLen, whose chunk is a key of the map; 0 when there is none.          *)
RECURSIVE phpFindChunk(_, _, _, _)
phpFindChunk(map, in, pos, j) ==
    IF j <= 0 THEN [matchLen |-> 0, code |-> 0]
    ELSE LET chunk == Sub(in, pos, pos + j)
         IN  IF chunk \in DOMAIN map
             THEN [matchLen |-> j, code |-> Byte(map[chunk])]
             ELSE phpFindChunk(map, in, pos, j - 1)

(* A lookup that starts one byte short of the longest entry. *)
phpFind_short(map, in, pos) ==
    phpFindChunk(map, in, pos, Min(6, Len(in) - pos))

phpFind(map, in, pos) == phpFindChunk(map, in, pos, Min(7, Len(in) - pos))

(* Smaz::flushVerbatim, smaz.php:170-191. *)
RECURSIVE phpFlushLoop(_, _, _)
phpFlushLoop(out, verb, pos) ==
    IF pos >= Len(verb) THEN out
    ELSE LET chunkSize == Min(255, Len(verb) - pos)
             chunk == Sub(verb, pos, pos + chunkSize)
             head == IF chunkSize = 1 THEN <<254>>
                     ELSE <<255, Byte(chunkSize)>>
         IN  phpFlushLoop(out \o head \o chunk, verb, pos + chunkSize)

phpFlushVerbatim(verb) == phpFlushLoop(<<>>, verb, 0)

PhpCompressEntry ==
    /\ pc = "compress"
    /\ encodeMap' = getEncodeMap(encodeMap, decodeMap)
    /\ pOutput' = <<>>
    /\ pVerbatim' = <<>>
    /\ pI' = 0
    /\ pc' = "p_loop"
    /\ UNCHANGED <<decodeMap, codeTrie, mode, pRet, goVars, decVars>>

PhpCompressStep ==
    /\ pc = "p_loop"
    /\ pI < Len(input.bytes)
    /\ LET m == phpFind(encodeMap, input.bytes, pI)
       IN  IF m.matchLen > 0
           THEN /\ pOutput' = (IF Len(pVerbatim) > 0
                               THEN pOutput \o phpFlushVerbatim(pVerbatim)
                               ELSE pOutput) \o <<m.code>>
                /\ pVerbatim' = <<>>
                /\ pI' = pI + m.matchLen
           ELSE LET v == Append(pVerbatim, At(input.bytes, pI))
                IN  /\ pI' = pI + 1
                    /\ IF Len(v) = 255
                       THEN /\ pOutput' = pOutput \o phpFlushVerbatim(v)
                            /\ pVerbatim' = <<>>
                       ELSE /\ pOutput' = pOutput
                            /\ pVerbatim' = v
    /\ UNCHANGED <<pc, mode, pRet, codecVars, goVars, decVars>>

(* Returning from Smaz::compress; the driver then passes what the Go       *)
(* encoder returned to Decompress.                                         *)
PhpCompressReturn ==
    /\ pc = "p_loop"
    /\ pI >= Len(input.bytes)
    /\ LET out == IF Len(pVerbatim) > 0
                  THEN pOutput \o phpFlushVerbatim(pVerbatim) ELSE pOutput
       IN  /\ pOutput' = out
           /\ pRet' = out
    /\ dInput' = cRet.out
    /\ pc' = "Decompress"
    /\ UNCHANGED <<pI, pVerbatim, mode, codecVars, goVars>>
    /\ UNCHANGED <<dI, dOutput, dIters, dRead, dRet>>

----------------------------------------------------------------------------
(* Decompress, smaz.go:167-211.                                            *)
(* A failure that hands back what was decoded so far. *)
DecompressFail_partial(msg) ==
    /\ dRet' = [out |-> Slice(dOutput), err |-> msg]
    /\ pc' = "done"
    /\ UNCHANGED <<dI, dOutput, dIters>>

DecompressFail(msg) ==
    /\ dRet' = [out |-> NilSlice, err |-> msg]
    /\ pc' = "done"
    /\ UNCHANGED <<dI, dOutput, dIters>>

DecompressEntry ==
    /\ pc = "Decompress"
    /\ IF dInput.isNil
       THEN /\ dRet' = [out |-> NilSlice, err |-> "input cannot be nil"]
            /\ pc' = "done"
            /\ UNCHANGED <<dI, dOutput>>
       ELSE /\ dOutput' = <<>>
            /\ dI' = 0
            /\ pc' = "d_loop"
            /\ UNCHANGED dRet
    /\ UNCHANGED <<dInput, dIters, dRead, mode, codecVars, goVars, phpVars>>

(* A verbatim byte that moves the cursor past the escape only. *)
DecompressVerbatimByte_skip1 ==
    /\ pc = "d_loop"
    /\ dI < Len(dInput.bytes)
    /\ At(dInput.bytes, dI) = verbatimByte
    /\ IF dI + 1 >= Len(dInput.bytes)
       THEN /\ DecompressFail("incomplete verbatim byte sequence")
            /\ dRead' = Max(dRead, dI)
       ELSE /\ dOutput' = Append(dOutput, At(dInput.bytes, dI + 1))
            /\ dI' = dI + 1
            /\ dIters' = dIters + 1
            /\ dRead' = Max(dRead, dI + 1)
            /\ UNCHANGED <<pc, dRet>>
    /\ UNCHANGED <<dInput, mode, codecVars, goVars, phpVars>>

DecompressVerbatimByte ==
    /\ pc = "d_loop"
    /\ dI < Len(dInput.bytes)
    /\ At(dInput.bytes, dI) = verbatimByte
    /\ IF dI + 1 >= Len(dInput.bytes)
       THEN /\ DecompressFail("incomplete verbatim byte sequence")
            /\ dRead' = Max(dRead, dI)
       ELSE /\ dOutput' = Append(dOutput, At(dInput.bytes, dI + 1))
            /\ dI' = dI + 2
            /\ dIters' = dIters + 1
            /\ dRead' = Max(dRead, dI + 1)
            /\ UNCHANGED <<pc, dRet>>
    /\ UNCHANGED <<dInput, mode, codecVars, goVars, phpVars>>

(* A length check that is off by one: the slice expression then reaches   *)
(* one byte past the input and the runtime panics.                        *)
DecompressVerbatimString_offByOne ==
    /\ pc = "d_loop"
    /\ dI < Len(dInput.bytes)
    /\ At(dInput.bytes, dI) = verbatimString
    /\ IF dI + 1 >= Len(dInput.bytes)
       THEN /\ DecompressFail("incomplete verbatim string length")
            /\ dRead' = Max(dRead, dI)
       ELSE LET length == At(dInput.bytes, dI + 1)
            IN  IF dI + 1 + length > Len(dInput.bytes)
                THEN /\ DecompressFail("incomplete verbatim string data")
                     /\ dRead' = Max(dRead, dI + 1)
                ELSE IF dI + 2 + length > Len(dInput.bytes)
                THEN /\ DecompressFail("panic: slice bounds out of range")
                     /\ dRead' = Max(dRead, dI + 1 + length)
                ELSE /\ dOutput' = dOutput \o
                            Sub(dInput.bytes, dI + 2, dI + 2 + length)
                     /\ dI' = dI + 2 + length
                     /\ dIters' = dIters + 1
                     /\ dRead' = Max(dRead, dI + 1 + length)
                     /\ UNCHANGED <<pc, dRet>>
    /\ UNCHANGED <<dInput, mode, codecVars, goVars, phpVars>>

DecompressVerbatimString ==
    /\ pc = "d_loop"
    /\ dI < Len(dInput.bytes)
    /\ At(dInput.bytes, dI) = verbatimString
    /\ IF dI + 1 >= Len(dInput.bytes)
       THEN /\ DecompressFail("incomplete verbatim string length")
            /\ dRead' = Max(dRead, dI)
       ELSE LET length == At(dInput.bytes, dI + 1)
            IN  IF dI + 2 + length > Len(dInput.bytes)
                THEN /\ DecompressFail("incomplete verbatim string data")
                     /\ dRead' = Max(dRead, dI + 1)
                ELSE /\ dOutput' = dOutput \o
                            Sub(dInput.bytes, dI + 2, dI + 2 + length)
                     /\ dI' = dI + 2 + length
                     /\ dIters' = dIters + 1
                     /\ dRead' = Max(dRead, dI + 1 + length)
                     /\ UNCHANGED <<pc, dRet>>
    /\ UNCHANGED <<dInput, mode, codecVars, goVars, phpVars>>

(* A range check that lets the code equal to the codebook size through:  *)
(* indexing decodeMap with it panics.                                     *)
DecompressCode_gt ==
    /\ pc = "d_loop"
    /\ dI < Len(dInput.bytes)
    /\ At(dInput.bytes, dI) \notin {verbatimByte, verbatimString}
    /\ dRead' = Max(dRead, dI)
    /\ IF At(dInput.bytes, dI) > Len(decodeMap)
       THEN DecompressFail("invalid code")
       ELSE IF At(dInput.bytes, dI) = Len(decodeMap)
       THEN DecompressFail("panic: index out of range")
       ELSE /\ dOutput' = dOutput \o decodeMap[At(dInput.bytes, dI) + 1]
            /\ dI' = dI + 1
            /\ dIters' = dIters + 1
            /\ UNCHANGED <<pc, dRet>>
    /\ UNCHANGED <<dInput, mode, codecVars, goVars, phpVars>>

DecompressCode ==
    /\ pc = "d_loop"
    /\ dI < Len(dInput.bytes)
    /\ At(dInput.bytes, dI) \notin {verbatimByte, verbatimString}
    /\ dRead' = Max(dRead, dI)
    /\ IF At(dInput.bytes, dI) >= Len(decodeMap)
       THEN DecompressFail("invalid code")
       ELSE /\ dOutput' = dOutput \o decodeMap[At(dInput.bytes, dI) + 1]
            /\ dI' = dI + 1
            /\ dIters' = dIters + 1
            /\ UNCHANGED <<pc, dRet>>
    /\ UNCHANGED <<dInput, mode, codecVars, goVars, phpVars>>

DecompressReturn ==
    /\ pc = "d_loop"
    /\ dI >= Len(dInput.bytes)
    /\ dRet' = [out |-> Slice(dOutput), err |-> NoError]
    /\ pc' = "done"
    /\ UNCHANGED <<dInput, dI, dOutput, dIters, dRead>>
    /\ UNCHANGED <<mode, codecVars, goVars, phpVars>>

----------------------------------------------------------------------------
(* Inputs.                                                                 *)
MaxLen    == 3   \* longest input enumerated over Alphabet
MaxDecLen == 3   \* longest Decompress argument enumerated over DecAlphabet
MaxFrames == 2   \* most full 255-byte frames in a long unmatched run
MaxExtra  == 1   \* most bytes following the full frames of a long run

(* 't' 'h' 'e' ' ' are codebook bytes; 'q', 254 and 255 start no entry. *)
Alphabet    == {116, 104, 101, 32, 113, 254, 255}
DecAlphabet == {0, 1, 2, 3, 253, 254, 255}
Unmatched   == <<113, 254, 255>>

SeqsUpTo(S, n) == UNION {[1..k -> S] : k \in 0..n}

(* "the quick brown fox", "http://the", "http:/e", "whicx", "which",      *)
(* "e th" 254, "q the", 255 "the " 254 "t"                                 *)
Samples ==
    { <<116, 104, 101, 32, 113, 117, 105, 99, 107, 32, 98, 114, 111, 119,
        110, 32, 102, 111, 120>>,
      <<104, 116, 116, 112, 58, 47, 47, 116, 104, 101>>,
      <<104, 116, 116, 112, 58, 47, 101>>,
      <<119, 104, 105, 99, 120>>,
      <<119, 104, 105, 99, 104>>,
      <<101, 32, 116, 104, 254>>,
      <<113, 32, 116, 104, 101>>,
      <<255, 116, 104, 101, 32, 254, 116>> }

DecSamples ==
    { <<255, 5, 1, 2>>,
      <<255, 0, 1, 254>>,
      <<254, 255, 255, 0>>,
      <<255, 2, 254, 255, 1>>,
      <<1, 255, 0, 254, 2, 253>> }

Run(n)  == [k \in 1..n |-> Unmatched[(k % 3) + 1]]
RunLens == {254} \cup {f * 255 + d : f \in 1..MaxFrames, d \in 0..MaxExtra}
Edges   == {<<>>, <<101>>}
LongInputs == {e \o Run(n) \o e : e \in Edges, n \in RunLens}

CompressInputs ==
    {NilSlice} \cup
    {Slice(s) : s \in SeqsUpTo(Alphabet, MaxLen) \cup Samples \cup LongInputs}

DecompressInputs ==
    {NilSlice} \cup
    {Slice(s) : s \in SeqsUpTo(DecAlphabet, MaxDecLen) \cup DecSamples}

----------------------------------------------------------------------------
(* init(), smaz.go:47-57, run on a codebook, then the driver's choice of   *)
(* scenario and argument.                                                  *)
init(strings) ==
    /\ decodeMap = strings
    /\ codeTrie = putAll(strings)
    /\ encodeMap = <<>>

Start ==
    /\ mode \in {"roundtrip", "decode"}
    /\ IF mode = "roundtrip"
       THEN /\ input \in CompressInputs
            /\ dInput = NilSlice
            /\ pc = "Compress"
       ELSE /\ input = NilSlice
            /\ dInput \in DecompressInputs
            /\ pc = "Decompress"
    /\ i = 0 /\ output = <<>> /\ verbatim = <<>>
    /\ matchLen = 0 /\ code = 0 /\ cRet = Pending
    /\ pI = 0 /\ pOutput = <<>> /\ pVerbatim = <<>> /\ pRet = <<>>
    /\ dI = 0 /\ dOutput = <<>> /\ dIters = 0 /\ dRead = -1 /\ dRet = Pending

Init == init(codeStrings) /\ Start

Next ==
    \/ CompressEntry
    \/ CompressFind
    \/ CompressMatch
    \/ CompressLiteral
    \/ CompressFull
    \/ CompressReturn
    \/ PhpCompressEntry
    \/ PhpCompressStep
    \/ PhpCompressReturn
    \/ DecompressEntry
    \/ DecompressVerbatimByte
    \/ DecompressVerbatimString
    \/ DecompressCode
    \/ DecompressReturn

Spec == Init /\ [][Next]_vars

(* The same program built from a shorter codebook: the first n entries. *)
SmallCodebook == 3
CodebookSizes == {SmallCodebook, Len(codeStrings)}
InitN == (\E n \in CodebookSizes : init(SubSeq(codeStrings, 1, n))) /\ Start
SpecN == InitN /\ [][Next]_vars

----------------------------------------------------------------------------
(* The stream format and the codebook, stated without the encoder's or     *)
(* the decoder's loops, for the properties below.                          *)
TypeOK == pc \in {"Compress", "c_loop", "c_match", "c_nomatch", "c_full",
                  "compress", "p_loop", "Decompress", "d_loop", "done"}

IsPrefixAt(e, s, pos) ==
    /\ Len(e) <= Len(s) - pos
    /\ SubSeq(s, pos + 1, pos + Len(e)) = e

(* The entries (1-based positions in decodeMap) that are a prefix of s[pos:]. *)
MatchesAt(s, pos) ==
    {k \in 1..Len(decodeMap) :
        Len(decodeMap[k]) <= 7 /\ IsPrefixAt(decodeMap[k], s, pos)}

LongestAt(s, pos) ==
    CHOOSE k \in MatchesAt(s, pos) :
        \A l \in MatchesAt(s, pos) : Len(decodeMap[l]) <= Len(decodeMap[k])

OneFrame(v) ==
    IF Len(v) = 1 THEN <<254, v[1]>> ELSE <<255, Len(v)>> \o v

(* floor(n/255) frames of 255 literals, then the frame of the remainder. *)
RECURSIVE FullFrames(_, _)
FullFrames(run, f) ==
    IF f = 0 THEN <<>>
    ELSE FullFrames(run, f - 1) \o
         <<255, 255>> \o SubSeq(run, (f - 1) * 255 + 1, f * 255)

RunFrames(run) ==
    LET full == Len(run) \div 255
        r == Len(run) % 255
        rest == SubSeq(run, full * 255 + 1, Len(run))
    IN  FullFrames(run, full) \o
        (IF r = 0 THEN <<>>
         ELSE IF r = 1 THEN <<254, rest[1]>>
         ELSE <<255, r>> \o rest)

(* The length of the maximal unmatched run that starts at pos. *)
RunLenAt(s, pos) ==
    LET ends == {n \in 1..(Len(s) - pos) :
                    pos + n = Len(s) \/ MatchesAt(s, pos + n) # {}}
    IN  CHOOSE n \in ends : \A m \in ends : n <= m

RECURSIVE Encoding(_, _)
Encoding(s, pos) ==
    IF pos >= Len(s) THEN <<>>
    ELSE IF MatchesAt(s, pos) # {}
         THEN <<LongestAt(s, pos) - 1>> \o
              Encoding(s, pos + Len(decodeMap[LongestAt(s, pos)]))
         ELSE RunFrames(SubSeq(s, pos + 1, pos + RunLenAt(s, pos))) \o
              Encoding(s, pos + RunLenAt(s, pos))

NeverMatches(s) == \A pos \in 0..(Len(s) - 1) : MatchesAt(s, pos) = {}

TruncationErrors == {"incomplete verbatim byte sequence",
                     "incomplete verbatim string length",
                     "incomplete verbatim string data"}

(* The token that starts at pos is cut short by the end of s. *)
Truncated(s, pos) ==
    \/ s[pos + 1] = 254 /\ pos + 1 = Len(s)
    \/ s[pos + 1] = 255 /\ pos + 1 = Len(s)
    \/ s[pos + 1] = 255 /\ pos + 1 < Len(s)
                        /\ Len(s) - (pos + 2) < s[pos + 2]

(* The length of the whole token that starts at pos; 0 when it is malformed. *)
TokenLen(s, pos) ==
    IF Truncated(s, pos) THEN 0
    ELSE IF s[pos + 1] = 254 THEN 2
    ELSE IF s[pos + 1] = 255 THEN 2 + s[pos + 2]
    ELSE IF s[pos + 1] < Len(decodeMap) THEN 1 ELSE 0

RECURSIVE TokenCount(_, _)
TokenCount(s, pos) ==
    IF pos >= Len(s) \/ TokenLen(s, pos) = 0 THEN 0
    ELSE 1 + TokenCount(s, pos + TokenLen(s, pos))

Fox == <<116, 104, 101, 32, 113, 117, 105, 99, 107, 32, 98, 114, 111, 119,
         110, 32, 102, 111, 120>>

----------------------------------------------------------------------------
(* C1: round trip.  For every non-nil input S, Compress(S) returns no      *)
(* error, and Decompress of what it returned returns exactly S, no error.  *)
C1_RoundTrip ==
    (mode = "roundtrip" /\ ~input.isNil) =>
        /\ cRet.err \in {"pending", NoError}
        /\ pc = "done" =>
              /\ cRet.err = NoError
              /\ dInput = cRet.out
              /\ dRet.err = NoError
              /\ ~dRet.out.isNil
              /\ dRet.out.bytes = input.bytes

C1_Witness ==
    /\ pc = "done" /\ mode = "roundtrip"
    /\ input.bytes = <<104, 254, 255>>
    /\ dInput.bytes = <<18, 255, 2, 254, 255>>
    /\ dRet = [out |-> Slice(<<104, 254, 255>>), err |-> NoError]

(* C2: greedy longest match.  Whenever an entry is a prefix of the input   *)
(* at the cursor, the lookup returns the longest such entry, the one byte  *)
(* emitted is its index and the cursor advances by its length; the first   *)
(* byte emitted for "the quick brown fox" is 1, the code of "the".         *)
C2_Step ==
    /\ (pc = "c_loop" /\ i < Len(input.bytes)
                      /\ MatchesAt(input.bytes, i) # {}) =>
          /\ pc' = "c_match"
          /\ code' = LongestAt(input.bytes, i) - 1
          /\ matchLen' = Len(decodeMap[LongestAt(input.bytes, i)])
    /\ pc = "c_match" =>
          /\ MatchesAt(input.bytes, i) # {}
          /\ Len(output') = Len(output \o RunFrames(verbatim)) + 1
          /\ output'[Len(output')] = LongestAt(input.bytes, i) - 1
          /\ i' = i + Len(decodeMap[LongestAt(input.bytes, i)])
    /\ (input.bytes = Fox /\ output' # <<>>) => output'[1] = 1

C2_GreedyLongestMatch == [][C2_Step]_vars

C2_Witness ==
    /\ input.bytes = Fox /\ pc = "c_loop" /\ i = 3 /\ output = <<1>>

(* C3: escape framing.  A maximal run of n unmatched bytes is encoded as   *)
(* floor(n/255) frames [255, 255, ...] and then, for r = n mod 255,        *)
(* nothing (r = 0), [254, b] (r = 1) or [255, r, ...] (r >= 2); matched    *)
(* positions are encoded by the code of their longest entry.               *)
C3_EscapeFraming ==
    pc = "compress" => output = Encoding(input.bytes, 0)

C3_Witness ==
    /\ pc = "compress"
    /\ input.bytes = Run(256)
    /\ output = <<255, 255>> \o Run(255) \o <<254, Run(256)[256]>>

(* C4: decoder truncation.  An iteration fails with a truncation error     *)
(* exactly when the token at the cursor is cut short by the end of the     *)
(* input (254 last, 255 last, or fewer than L bytes after the length L);   *)
(* the failure returns nil, not the decoded prefix; a frame [255, 0] is    *)
(* accepted, appends nothing and advances the cursor by 2.                 *)
C4_Step ==
    /\ (pc = "d_loop" /\ dI < Len(dInput.bytes)) =>
          /\ dRet'.err \in TruncationErrors <=> Truncated(dInput.bytes, dI)
          /\ (/\ dInput.bytes[dI + 1] = 255
              /\ dI + 1 < Len(dInput.bytes)
              /\ dInput.bytes[dI + 2] = 0) =>
                 /\ pc' = "d_loop"
                 /\ dI' = dI + 2
                 /\ dOutput' = dOutput
                 /\ dRet' = Pending
    /\ dRet'.err \in TruncationErrors =>
          /\ dRet'.out = NilSlice
          /\ pc' = "done"

C4_Truncation == [][C4_Step]_vars

C4_Witness ==
    /\ pc = "done"
    /\ dInput.bytes = <<255, 0, 1, 254>>
    /\ dOutput = <<116, 104, 101>>
    /\ dRet = [out |-> NilSlice, err |-> "incomplete verbatim byte sequence"]

(* C5: empty versus nil.  Compress and Decompress of the empty sequence    *)
(* return the empty sequence and no error; of nil, an error and no output; *)
(* Compress returns an error on no other input.                            *)
C5_EmptyAndNil ==
    /\ (cRet # Pending /\ input = Slice(<<>>)) =>
          cRet = [out |-> Slice(<<>>), err |-> NoError]
    /\ (dRet # Pending /\ dInput = Slice(<<>>)) =>
          dRet = [out |-> Slice(<<>>), err |-> NoError]
    /\ (cRet # Pending /\ input.isNil) =>
          cRet.out = NilSlice /\ cRet.err # NoError
    /\ (dRet # Pending /\ dInput.isNil) =>
          dRet.out = NilSlice /\ dRet.err # NoError
    /\ (mode = "roundtrip" /\ pc \notin {"Compress", "c_loop", "c_match",
                                         "c_nomatch", "c_full"}) =>
          /\ cRet # Pending
          /\ cRet.err # NoError <=> input.isNil
    /\ (pc = "done" /\ mode = "decode") => dRet # Pending

C5_Witness ==
    /\ pc = "done" /\ mode = "roundtrip" /\ input.isNil
    /\ cRet = [out |-> NilSlice, err |-> "input cannot be nil"]

(* C6: invalid code.  With a codebook of N entries, a token-start byte b   *)
(* in 0..253 fails with "invalid code" exactly when b >= N, and otherwise  *)
(* appends entry b and advances by 1; Compress emits no code >= N, so      *)
(* decoding its output never gives this error, and with N = 254 no input   *)
(* does.                                                                   *)
C6_Step ==
    /\ (pc = "d_loop" /\ dI < Len(dInput.bytes)
                      /\ dInput.bytes[dI + 1] \in 0..253) =>
          /\ dRet'.err = "invalid code" <=>
                dInput.bytes[dI + 1] >= Len(decodeMap)
          /\ dInput.bytes[dI + 1] < Len(decodeMap) =>
                /\ pc' = "d_loop"
                /\ dOutput' = dOutput \o decodeMap[dInput.bytes[dI + 1] + 1]
                /\ dI' = dI + 1
    /\ (pc = "c_match" /\ Len(decodeMap) <= 254) =>
          /\ code < Len(decodeMap)
          /\ output'[Len(output')] < Len(decodeMap)
    /\ (mode = "roundtrip" \/ Len(decodeMap) = 254) =>
          dRet'.err # "invalid code"

C6_InvalidCode == [][C6_Step]_vars

C6_Witness ==
    /\ pc = "done"
    /\ Len(decodeMap) = SmallCodebook
    /\ dInput.bytes = <<1, 253>>
    /\ dOutput = <<116, 104, 101>>
    /\ dRet = [out |-> NilSlice, err |-> "invalid code"]

(* C7: decoder progress and bounds.  Every iteration that does not fail    *)
(* consumes exactly the token at the cursor and moves the cursor forward   *)
(* by its length (1, 2 or 2 + L); the cursor never moves back and never    *)
(* passes the end; no index >= n is read; an iteration fails only on a     *)
(* malformed token; and the loop has run once per token when it ends.      *)
C7_Step ==
    /\ dI' >= dI
    /\ dI' <= Len(dInput'.bytes)
    /\ dRead' < Len(dInput'.bytes)
    /\ (pc = "d_loop" /\ dI < Len(dInput.bytes)) =>
          /\ dRead' >= dI
          /\ pc' = "d_loop" =>
                /\ TokenLen(dInput.bytes, dI) > 0
                /\ dI' = dI + TokenLen(dInput.bytes, dI)
                /\ dI' > dI
                /\ dIters' = dIters + 1
                /\ dRead' = dI' - 1
          /\ pc' = "done" =>
                /\ TokenLen(dInput.bytes, dI) = 0
                /\ dRet'.err # NoError
                /\ dI' = dI /\ dIters' = dIters
    /\ pc' = "done" /\ dRet' # Pending /\ ~dInput.isNil =>
          /\ dIters' = TokenCount(dInput.bytes, 0)
          /\ dRet'.err = NoError <=> dI' = Len(dInput.bytes)

C7_DecoderProgress == [][C7_Step]_vars

C7_Witness ==
    /\ pc = "done"
    /\ dInput.bytes = <<254, 255, 255, 0>>
    /\ dIters = 2 /\ dI = 4 /\ dRead = 3
    /\ dRet = [out |-> Slice(<<255>>), err |-> NoError]

(* The frames [255, L, ...] and [254, b] that n unmatched bytes are cut into. *)
StringFrames(n) == (n \div 255) + (IF n % 255 >= 2 THEN 1 ELSE 0)
ByteFrames(n)   == IF n % 255 = 1 THEN 1 ELSE 0

(* C8: worst-case expansion.  For an input that matches the codebook at no *)
(* position, a frame [255, L, ...] costs two bytes beyond its literals     *)
(* (the escape and the length byte) and a frame [254, b] costs one.        *)

C8_Expansion ==
    (pc = "compress" /\ NeverMatches(input.bytes)) =>
        Len(output) = Len(input.bytes)
                        + 2 * StringFrames(Len(input.bytes))
                        + ByteFrames(Len(input.bytes))

(* C8 as first stated: one byte of overhead per verbatim-string frame,     *)
(* plus one byte for a single unmatched byte in isolation.                 *)
C8_OneBytePerFrame ==
    (pc = "compress" /\ NeverMatches(input.bytes)) =>
        Len(output) = Len(input.bytes)
                        + StringFrames(Len(input.bytes))
                        + ByteFrames(Len(input.bytes))

C8_Witness ==
    /\ pc = "compress"
    /\ input.bytes = Run(2 * 255 + 1)
    /\ NeverMatches(input.bytes)
    /\ Len(output) = 2 * 255 + 1 + 5

(* C9: the Go and the PHP encoder are the same algorithm.  At every cursor *)
(* position the trie walk and the descending substring lookup return the   *)
(* same match length and code, and the two encoders return the same bytes. *)
C9_SameAlgorithm ==
    /\ (pc = "p_loop" /\ pI < Len(input.bytes)) =>
          findLongestPrefix(codeTrie,
              Sub(input.bytes, pI, pI + Min(7, Len(input.bytes) - pI)))
            = phpFind(encodeMap, input.bytes, pI)
    /\ (mode = "roundtrip" /\ ~input.isNil
          /\ pc \in {"Decompress", "d_loop", "done"}) =>
          pRet = cRet.out.bytes

(* "whicx": the walk passes the non-terminal node "whic" and falls back to "whi" *)
C9_Witness ==
    /\ pc = "done"
    /\ input.bytes = <<119, 104, 105, 99, 120>>
    /\ cRet.out.bytes = <<247, 28, 250>>
    /\ pRet = <<247, 28, 250>>

(* C10: the verbatim accumulator.  It never holds more than 255 bytes, and *)
(* at most 254 at the top of the loop; a match flushes it before the code  *)
(* is appended and leaves it empty; every flush is of 1..255 bytes and     *)
(* emits exactly one frame, whose length byte is the accumulator's length. *)
C10_Step ==
    /\ Len(verbatim') <= 255
    /\ pc' = "c_loop" => Len(verbatim') <= 254
    /\ pc = "c_match" =>
          /\ verbatim' = <<>>
          /\ output' = (IF verbatim = <<>> THEN output
                        ELSE output \o OneFrame(verbatim)) \o <<code>>
    /\ (pc \in {"c_full", "c_loop"} /\ output' # output) =>
          /\ Len(verbatim) \in 1..255
          /\ output' = output \o OneFrame(verbatim)
    /\ (pc = "c_full" /\ Len(verbatim) = 255) =>
          /\ verbatim' = <<>>
          /\ output' # output

=============================================================================
